---- MODULE Spec2Model ----
(***************************************************************************)
(* Model of whdload-mirror.py: the FTP mirror engine.                      *)
(*                                                                         *)
(* The program is sequential.  Its state is the local file system, the     *)
(* control connections it has created, the negotiated checksum             *)
(* capabilities (globals), the run counters (globals) and the position of  *)
(* the running call chain main -> mirror_dir.recurse -> list_entries /     *)
(* remote_file_size / download_file -> _download_and_verify.  The server   *)
(* and the network are the environment: every protocol command may fail,   *)
(* a transfer may break after any number of bytes, and a completed         *)
(* transfer may deliver damaged content.                                   *)
(*                                                                         *)
(* Paths are sequences of names.  A local file is [exists, size, ok]: ok   *)
(* says its bytes are the first `size` bytes of the remote file, so a      *)
(* checksum over it matches the server's exactly when ok and size equals   *)
(* the remote size.  Local file-system calls do not fail; the delays a    *)
(* retry loop sleeps are recorded with the loop's locals; elapsed time     *)
(* (seconds, MB/s) and mtime are not part of the state.                    *)
(***************************************************************************)
EXTENDS Integers, Sequences, FiniteSets, TLC

\* ---- configuration (module-level settings of the script) ----
MAX_RETRIES == 3
SLEEP_BETWEEN_RETRIES == 2
RESUME_PARTIAL == TRUE
SKIP_EXISTING_SAME_SIZE == TRUE
PREFERRED_HASH_ALGOS == <<"CRC32", "MD5", "SHA-1", "SHA-256">>

\* ---- bounds of the model ----
MaxSize == 3     \* size of the largest remote file
MaxFaults == 3   \* environment faults (failed commands, damaged transfers)
MaxConn == 4     \* control connections a process may create
MaxLocal == 1    \* local files that exist before the first run
\* the nesting of recurse calls the interpreter allows (RecursionError
\* beyond it); deeper than every remote tree
MaxDepth == 4

NoAlgo == "none"

VARIABLES
  pc,       \* position of the running call chain
  run,      \* 1: first run of the script, 2: second run on the same disk
  tree,     \* remote tree: directory path -> listing (sequence of entries)
  server,   \* what the server advertises and accepts
  net,      \* connections and negotiated capabilities (HASH_SUPPORTED, ...)
  ftp,      \* main's / mirror_dir's connection variable `ftp`
  stack,    \* activation records of recurse
  le,       \* locals of list_entries
  rs,       \* locals of remote_file_size
  df,       \* locals of download_file
  dv,       \* locals of _download_and_verify
  localDirs,                \* local directories that exist
  disk,                     \* local path -> file at that path
  part,                     \* local path -> the file at path + ".part"
  total_bytes_downloaded,
  total_files_synced,
  total_dirs_synced,
  last,     \* how the latest download_file call ended
  hist,     \* history of the run, read only by the properties
  cf,       \* locals of connect_ftp (its attempt loop, analysed on its own)
  ls,       \* list_entries' MLSD loop on its own: raw entries and items
  sh        \* locals of setup_hash_features (its loop, analysed on its own)

vars == <<pc, run, tree, server, net, ftp, stack, le, rs, df, dv, localDirs,
          disk, part, total_bytes_downloaded, total_files_synced,
          total_dirs_synced, last, hist, cf, ls, sh>>

\* ---- remote trees ----
base_remote == <<"pub">>
base_local == <<"mirror">>

Dir(n) == [name |-> n, kind |-> "dir", size |-> 0]
File(n, s) == [name |-> n, kind |-> "file", size |-> s]

\* pub/{A/{f1}, f2, B/, f3}: the listing mixes directories and files
TreeWide ==
  (<<"pub">> :> <<Dir("A"), File("f2", 1), Dir("B"), File("f3", 2)>>)
  @@ (<<"pub", "A">> :> <<File("f1", MaxSize)>>)
  @@ (<<"pub", "B">> :> <<>>)

\* pub/{A/{B/{f1}}, f2}: nesting of depth three
TreeDeep ==
  (<<"pub">> :> <<File("f2", 1), Dir("A")>>)
  @@ (<<"pub", "A">> :> <<Dir("B")>>)
  @@ (<<"pub", "A", "B">> :> <<File("f1", MaxSize)>>)

Trees == {TreeWide, TreeDeep}

\* pub/{A/{f1}} on a server whose MLSD answer names the listed directory
\* itself by its path: "type=cdir; /pub/A"
TreeCdir ==
  (<<"pub">> :> <<Dir("A")>>)
  @@ (<<"pub", "A">> :> <<[name |-> "/pub/A", kind |-> "cdir", size |-> 0],
                          File("f1", 2)>>)

RemoteDirs(t) == DOMAIN t
FileIdx(t, d) == {i \in 1..Len(t[d]) : t[d][i].kind = "file"}
RemoteFiles(t) == UNION {{d \o <<t[d][i].name>> : i \in FileIdx(t, d)} : d \in DOMAIN t}
Parent(p) == SubSeq(p, 1, Len(p) - 1)
RemoteSize(t, p) ==
  LET d == Parent(p)
      i == CHOOSE j \in FileIdx(t, d) : t[d][j].name = p[Len(p)]
  IN t[d][i].size

\* ---- servers: advertised HASH algorithms, accepted ones, XCRC ----
ServerPlain == [algos |-> {}, accept |-> {}, xcrc |-> FALSE]
ServerHash == [algos |-> {"SHA-256", "MD5"}, accept |-> {"MD5", "SHA-256"}, xcrc |-> FALSE]
ServerXcrc == [algos |-> {"SHA-1"}, accept |-> {}, xcrc |-> TRUE]
Servers == {ServerPlain, ServerHash, ServerXcrc}

\* ---- paths (recurse, lines 672-673, 699-700, 706-707) ----
IsPrefix(a, b) == Len(a) <= Len(b) /\ SubSeq(b, 1, Len(a)) = a

\* faulty variant: the remote root is not stripped
RelOf_NoStrip(remote_dir) == remote_dir

\* rel = remote_dir[len(base_remote):] if it starts with base_remote
RelOf(remote_dir) ==
  IF IsPrefix(base_remote, remote_dir)
  THEN SubSeq(remote_dir, Len(base_remote) + 1, Len(remote_dir))
  ELSE remote_dir

\* local_dir = os.path.join(base_local, rel) if rel else base_local
LocalDirOf(remote_dir) ==
  IF RelOf(remote_dir) = <<>> THEN base_local ELSE base_local \o RelOf(remote_dir)

\* l_path = os.path.join(local_dir, name)
LocalPathOf(remote_path) ==
  LocalDirOf(Parent(remote_path)) \o <<remote_path[Len(remote_path)]>>

LocalFiles(t) == {LocalPathOf(p) : p \in RemoteFiles(t)}

\* normpath(pjoin(remote_dir, name)), lines 699 and 706
NextRemote(remote_dir, name) ==
  IF name = "/pub" THEN base_remote
  ELSE IF name = "/pub/A" THEN base_remote \o <<"A">>
  ELSE IF name = "." THEN remote_dir
  ELSE IF name = ".." THEN Parent(remote_dir)
  ELSE remote_dir \o <<name>>

\* os.path.join(local_dir, name), line 700: an absolute name replaces
\* local_dir
NextLocal(local_dir, name) ==
  IF name \in {"/pub", "/pub/A"} THEN <<name>> ELSE local_dir \o <<name>>

\* ---- local files ----
NoFile == [exists |-> FALSE, size |-> 0, ok |-> FALSE]
LFile(s, o) == [exists |-> TRUE, size |-> s, ok |-> o]

\* local_hash(path, algo) = the server's reference for the remote file
HashMatches(f, rsize) == f.exists /\ f.ok /\ f.size = rsize

\* ---- the control connection ----
\* net = [nconn, open, HASH_SUPPORTED, HASH_ALGO, XCRC_SUPPORTED, faults,
\*        staleUse]: connections 1..nconn were created, those in open are not
\* closed; the three capability globals; the faults injected so far; whether
\* a command was ever issued on a closed connection.  caps_ftp is the
\* connection setup_hash_features last ran on, the one the three capability
\* globals describe.

\* One protocol command on connection h: it fails on a closed connection,
\* and the environment may make it fail on an open one.
Cmd(w, h) ==
  IF h \notin w.open
  THEN {[ok |-> FALSE, w |-> [w EXCEPT !.staleUse = TRUE]]}
  ELSE {[ok |-> TRUE, w |-> w]}
       \cup (IF w.faults < MaxFaults
             THEN {[ok |-> FALSE, w |-> [w EXCEPT !.faults = @ + 1]]}
             ELSE {})

\* A command whose failure the code swallows (try: ... except: pass).
IgnoredCmd(w, h) == {r.w : r \in Cmd(w, h)}

\* connect_ftp: a new connection, or the last error raised after
\* MAX_RETRIES failed attempts.
connect_ftp(w) ==
  (IF w.nconn < MaxConn
   THEN {[ok |-> TRUE, h |-> w.nconn + 1,
          w |-> [w EXCEPT !.nconn = @ + 1, !.open = @ \cup {w.nconn + 1}]]}
   ELSE {})
  \cup (IF w.faults < MaxFaults
        THEN {[ok |-> FALSE, h |-> 0, w |-> [w EXCEPT !.faults = @ + 1]]}
        ELSE IF w.nconn >= MaxConn
        THEN {[ok |-> FALSE, h |-> 0, w |-> w]}
        ELSE {})

\* The loop over PREFERRED_HASH_ALGOS from index i on (lines 265-273):
\* the set of [algo, w] it can end with.
RECURSIVE ActivateFrom(_, _, _)
ActivateFrom(i, w, h) ==
  IF i > Len(PREFERRED_HASH_ALGOS) THEN {[algo |-> NoAlgo, w |-> w]}
  ELSE LET pref == PREFERRED_HASH_ALGOS[i] IN
       IF pref \notin server.algos THEN ActivateFrom(i + 1, w, h)
       ELSE UNION {IF r.ok /\ pref \in server.accept
                   THEN {[algo |-> pref, w |-> r.w]}
                   ELSE ActivateFrom(i + 1, r.w, h) : r \in Cmd(w, h)}

\* setup_hash_features: the worlds it can leave.
setup_hash_features(w, h) ==
  LET w0 == [w EXCEPT !.HASH_SUPPORTED = FALSE, !.HASH_ALGO = NoAlgo,
                      !.XCRC_SUPPORTED = FALSE, !.caps_ftp = h]
  IN UNION {IF ~f.ok THEN {f.w}
            ELSE {[a.w EXCEPT !.HASH_SUPPORTED = (a.algo # NoAlgo),
                              !.HASH_ALGO = a.algo,
                              !.XCRC_SUPPORTED = server.xcrc]
                  : a \in ActivateFrom(1, f.w, h)}
            : f \in Cmd(w0, h)}

\* reconnect_ftp(old): close old, connect, negotiate; [ok, h, w].
reconnect_ftp(w, old) ==
  LET w1 == [w EXCEPT !.open = @ \ {old}]
  IN UNION {IF ~c.ok THEN {c}
            ELSE {[ok |-> TRUE, h |-> c.h, w |-> w2]
                  : w2 \in setup_hash_features(c.w, c.h)}
            : c \in connect_ftp(w1)}

\* keepalive(ftp): NOOP, and a reconnect when it fails; [ok, h, w].
keepalive(w, h) ==
  UNION {IF r.ok THEN {[ok |-> TRUE, h |-> h, w |-> r.w]}
         ELSE reconnect_ftp(r.w, h) : r \in Cmd(w, h)}

\* server_hash: the algorithm of the reference it returns (NoAlgo: none).
ServerHashXcrc(w, h) ==
  IF ~w.XCRC_SUPPORTED THEN {[algo |-> NoAlgo, w |-> w]}
  ELSE UNION {IF x.ok THEN {[algo |-> "CRC32", w |-> x.w]}
              ELSE {[algo |-> IF s.ok THEN "CRC32" ELSE NoAlgo, w |-> s.w]
                    : s \in Cmd(x.w, h)}
              : x \in Cmd(w, h)}

server_hash(w, h) ==
  IF w.HASH_SUPPORTED /\ w.HASH_ALGO # NoAlgo
  THEN UNION {IF r.ok THEN {[algo |-> w.HASH_ALGO, w |-> r.w]}
              ELSE ServerHashXcrc(r.w, h) : r \in Cmd(w, h)}
  ELSE ServerHashXcrc(w, h)

\* ftp.retrbinary from offset off of a remote file of size rsize:
\* [ok, n, damaged, w], n the bytes handed to the callback.
retrbinary(w, h, rsize, off) ==
  LET rem == IF rsize > off THEN rsize - off ELSE 0 IN
  IF h \notin w.open
  THEN {[ok |-> FALSE, n |-> 0, damaged |-> FALSE,
         w |-> [w EXCEPT !.staleUse = TRUE]]}
  ELSE {[ok |-> TRUE, n |-> rem, damaged |-> FALSE, w |-> w]}
       \cup (IF w.faults < MaxFaults
             THEN {[ok |-> FALSE, n |-> k, damaged |-> FALSE,
                    w |-> [w EXCEPT !.faults = @ + 1]] : k \in 0..rem}
                  \cup {[ok |-> TRUE, n |-> rem, damaged |-> TRUE,
                         w |-> [w EXCEPT !.faults = @ + 1]] : k \in 1..(IF rem > 0 THEN 1 ELSE 0)}
             ELSE {})

\* ---- activation records and locals ----
NewFrame(remote_dir) ==
  [remote_dir |-> remote_dir, cur_ftp |-> 0, retries |-> 0,
   dirs |-> <<>>, files |-> <<>>, di |-> 1, fi |-> 1, slept |-> <<>>]

Top == stack[Len(stack)]
SetTop(f) == [stack EXCEPT ![Len(stack)] = f]

\* slept: the delays the retry loop of the call has waited so far
LeIdle == [ftp |-> 0, attempt |-> 0, cur |-> FALSE, slept |-> <<>>]
RsIdle == [ftp |-> 0, attempt |-> 0, caller |-> "none", slept |-> <<>>]
NoStats == [action |-> "none", bytes |-> 0, verify |-> "SKIPPED",
            algo |-> NoAlgo, reloads |-> 0]
DfIdle == [ftp |-> 0, r_size |-> -1, stats |-> NoStats, skip |-> FALSE,
           ref |-> NoAlgo, bytes0 |-> 0, files0 |-> 0, file0 |-> NoFile]
DvIdle == [ftp |-> 0, rest |-> -1, action |-> "none", bytes_dl |-> 0,
           bytes_dl2 |-> 0, attempt |-> 0, caller |-> "none", algo |-> NoAlgo,
           l0 |-> 0, reloads |-> 0, lastOff |-> -1, lastN |-> -1,
           brokeAt |-> -1, slept |-> <<>>]
NoLast == [status |-> "none", err |-> "none", stats |-> NoStats,
           r_size |-> -1, skip |-> FALSE, ref |-> NoAlgo, bytes0 |-> 0,
           files0 |-> 0, file0 |-> NoFile]

\* connect_ftp: attempt, last_err, the sleeps made, the errors seen, the
\* attempts started, how it ended and with which error
CfIdle == [pc |-> "idle", attempt |-> 1, last_err |-> "none", slept |-> <<>>,
           errs |-> <<>>, made |-> 0, result |-> "none", raised |-> "none",
           type_i |-> FALSE]
\* list_entries' MLSD loop: the entries ftp.mlsd() yields and the items
LsIdle == [pc |-> "idle", raw |-> <<>>, items |-> <<>>, dirs |-> <<>>]
\* setup_hash_features: the three globals, the index of the preference
\* loop, the OPTS HASH commands sent with their outcome, whether FEAT
\* answered, whether an exception left the function
ShIdle == [pc |-> "idle", HASH_SUPPORTED |-> FALSE, HASH_ALGO |-> NoAlgo,
           XCRC_SUPPORTED |-> FALSE, i |-> 1, opts |-> <<>>,
           feat |-> "none", raised |-> FALSE]

\* time.sleep(SLEEP_BETWEEN_RETRIES) between the attempts of the listing,
\* size, transfer and reload loops and of recurse's listing retry (lines
\* 388, 419, 512, 565, 691): the same delay after every attempt
RetrySleep(attempt) == SLEEP_BETWEEN_RETRIES

\* the bound of the retry loops: range(1, MAX_RETRIES + 1) with the
\* attempt >= MAX_RETRIES tests (lines 336, 410, 496, 510, 545, 563) and
\* retries >= MAX_RETRIES (line 688)
LastAttempt(attempt) == attempt >= MAX_RETRIES

\* the file the file loop of the running recurse is at
CurEntry == Top.files[Top.fi]
CurRemote == Top.remote_dir \o <<CurEntry.name>>
CurLocal == LocalDirOf(Top.remote_dir) \o <<CurEntry.name>>
CurSize == RemoteSize(tree, CurRemote)

\* lines 357-368: what the MLSD loop appends for one entry e = [name, type,
\* size, probe]; probe is what try_cwd_is_dir(ftp, name) would answer
MlsdItem(e) ==
  IF e.name \in {".", ".."} THEN <<>>
  ELSE IF e.type \in {"dir", "cdir", "pdir"}
  THEN <<[name |-> e.name, kind |-> "dir", fsize |-> e.size]>>
  ELSE IF e.type = "file"
  THEN <<[name |-> e.name, kind |-> "file", fsize |-> e.size]>>
  ELSE IF e.probe
  THEN <<[name |-> e.name, kind |-> "dir", fsize |-> e.size]>>
  ELSE <<[name |-> e.name, kind |-> "file", fsize |-> e.size]>>

\* lines 354-369: items after the loop over the entries from index i on
RECURSIVE mlsd_items(_, _)
mlsd_items(raw, i) ==
  IF i > Len(raw) THEN <<>> ELSE MlsdItem(raw[i]) \o mlsd_items(raw, i + 1)

\* the entries ftp.mlsd() yields for a directory of the remote tree
RawMlsd(d) ==
  [i \in 1..Len(tree[d]) |->
     [name |-> tree[d][i].name, type |-> tree[d][i].kind,
      size |-> IF tree[d][i].kind = "file" THEN tree[d][i].size ELSE -1,
      probe |-> tree[d][i].kind = "dir"]]

\* what list_entries returns from its MLSD branch: name, kind and the size
\* fact
MlsdItems(d) == mlsd_items(RawMlsd(d), 1)

\* the NLST fallback: names probed with try_cwd_is_dir, facts = {}
NlstItems(d) ==
  LET names == SelectSeq(tree[d], LAMBDA e : e.kind \in {"dir", "file"})
  IN [i \in 1..Len(names) |->
        [name |-> names[i].name, kind |-> names[i].kind, fsize |-> -1]]

IsDirItem(e) == e.kind = "dir"
IsFileItem(e) == e.kind = "file"

\* what a mirror run leaves alone: the environment, and the locals of the
\* functions that are analysed on their own
envVars == <<run, tree, server, cf, ls, sh>>
statVars == <<total_bytes_downloaded, total_files_synced, total_dirs_synced>>
fsVars == <<localDirs, disk, part>>
calleeVars == <<le, rs, df, dv>>

\* ---- main and mirror_dir ----
\* faulty variant: the directory is not created
ensure_local_dir_Noop(dirs, path) == dirs

\* ensure_local_dir, lines 281-283: os.makedirs(path, exist_ok=True) on the
\* set of local directories
ensure_local_dir(dirs, path) == dirs \cup {path}

\* main up to the call of recurse(base_remote): connect, negotiate,
\* ensure_local_dir(base_local).  A failed connect ends the process.
main ==
  /\ pc = "main"
  /\ \E c \in connect_ftp(net) :
       IF ~c.ok
       THEN /\ pc' = "aborted"
            /\ net' = c.w
            /\ UNCHANGED <<ftp, stack, localDirs>>
       ELSE \E w2 \in setup_hash_features(c.w, c.h) :
              /\ net' = w2
              /\ ftp' = c.h
              /\ localDirs' = ensure_local_dir(localDirs, base_local)
              /\ stack' = <<NewFrame(base_remote)>>
              /\ pc' = "recurse"
  /\ UNCHANGED <<envVars, calleeVars, disk, part, statVars, last, hist>>

\* recurse, lines 669-674: count the directory, ensure its local directory
recurse_enter ==
  /\ pc = "recurse"
  /\ total_dirs_synced' = total_dirs_synced + 1
  /\ localDirs' = ensure_local_dir(localDirs, LocalDirOf(Top.remote_dir))
  /\ hist' = [hist EXCEPT !.entered = Append(@, Top.remote_dir)]
  /\ pc' = "recurse_keepalive"
  /\ UNCHANGED <<envVars, net, ftp, stack, calleeVars, disk, part,
                 total_bytes_downloaded, total_files_synced, last>>

\* recurse, line 679: cur_ftp = keepalive(ftp), ftp being mirror_dir's
recurse_keepalive ==
  /\ pc = "recurse_keepalive"
  /\ \E r \in keepalive(net, ftp) :
       /\ net' = r.w
       /\ IF r.ok
          THEN /\ stack' = SetTop([Top EXCEPT !.cur_ftp = r.h, !.retries = 0,
                                               !.slept = <<>>])
               /\ le' = [LeIdle EXCEPT !.ftp = r.h]
               /\ pc' = "list_entries"
          ELSE /\ pc' = "raised"
               /\ UNCHANGED <<stack, le>>
  /\ UNCHANGED <<envVars, ftp, rs, df, dv, fsVars, statVars, last, hist>>

\* ---- list_entries ----
\* line 344: ftp = keepalive(ftp)
list_entries ==
  /\ pc = "list_entries"
  /\ \E r \in keepalive(net, le.ftp) :
       /\ net' = r.w
       /\ IF r.ok
          THEN /\ le' = [le EXCEPT !.ftp = r.h, !.attempt = 1, !.cur = FALSE]
               /\ pc' = "le_pwd"
          ELSE /\ pc' = "recurse_list_except"
               /\ le' = LeIdle
  /\ UNCHANGED <<envVars, ftp, stack, rs, df, dv, fsVars, statVars, last, hist>>

\* lines 346-352: cur = ftp.pwd(), a reconnect when it fails
le_pwd ==
  /\ pc = "le_pwd"
  /\ \E r \in Cmd(net, le.ftp) :
       IF r.ok
       THEN /\ net' = r.w
            /\ le' = [le EXCEPT !.cur = TRUE]
            /\ pc' = "le_cwd"
       ELSE \E c \in reconnect_ftp(r.w, le.ftp) :
              /\ net' = c.w
              /\ IF c.ok
                 THEN /\ le' = [le EXCEPT !.ftp = c.h, !.cur = FALSE]
                      /\ pc' = "le_cwd"
                 ELSE /\ le' = [le EXCEPT !.cur = FALSE]
                      /\ pc' = "le_except"
  /\ UNCHANGED <<envVars, ftp, stack, rs, df, dv, fsVars, statVars, last, hist>>

\* line 353: ftp.cwd(remote_dir)
le_cwd ==
  /\ pc = "le_cwd"
  /\ \E r \in Cmd(net, le.ftp) :
       /\ net' = r.w
       /\ pc' = IF r.ok THEN "le_mlsd" ELSE "le_except"
  /\ UNCHANGED <<envVars, ftp, stack, calleeVars, fsVars, statVars, last, hist>>

\* list_entries returns items to recurse (line 683), which splits them
\* into dirs and files (lines 694-695)
LeReturn(items, w) ==
  /\ net' = w
  /\ stack' = SetTop([Top EXCEPT !.dirs = SelectSeq(items, IsDirItem),
                                 !.files = SelectSeq(items, IsFileItem),
                                 !.di = 1, !.fi = 1])
  /\ hist' = [hist EXCEPT !.listed =
                IF Len(items) = Len(tree[Top.remote_dir])
                THEN @ \cup {Top.remote_dir} ELSE @]
  /\ le' = LeIdle
  /\ pc' = "recurse_dirs"

\* the finally clause, lines 389-394: if cur: ftp.cwd(cur), errors ignored
LeFinally(w, h) == IF le.cur THEN IgnoredCmd(w, h) ELSE {w}

\* lines 355-384: MLSD; when it fails NLST with directory probes; when
\* that fails too names = [] and the empty list is returned at once
le_mlsd ==
  /\ pc = "le_mlsd"
  /\ \E m \in Cmd(net, le.ftp) :
       IF m.ok
       THEN \E w \in LeFinally(m.w, le.ftp) :
              LeReturn(MlsdItems(Top.remote_dir), w)
       ELSE \E n \in Cmd(m.w, le.ftp) :
            \E w \in LeFinally(n.w, le.ftp) :
              LeReturn(IF n.ok THEN NlstItems(Top.remote_dir) ELSE <<>>, w)
  /\ UNCHANGED <<envVars, ftp, rs, df, dv, fsVars, statVars, last>>

\* lines 385-395: except: reconnect, sleep; finally; next attempt, and
\* return [] after MAX_RETRIES attempts
le_except ==
  /\ pc = "le_except"
  /\ \E c \in reconnect_ftp(net, le.ftp) :
       IF c.ok
       THEN \E w \in LeFinally(c.w, c.h) :
              IF LastAttempt(le.attempt)
              THEN LeReturn(<<>>, w)
              ELSE /\ net' = w
                   /\ le' = [le EXCEPT !.ftp = c.h, !.attempt = @ + 1,
                                       !.cur = FALSE,
                                       !.slept = Append(@, RetrySleep(le.attempt))]
                   /\ pc' = "le_pwd"
                   /\ UNCHANGED <<stack, hist>>
       ELSE \E w \in LeFinally(c.w, le.ftp) :
              /\ net' = w
              /\ le' = LeIdle
              /\ pc' = "recurse_list_except"
              /\ UNCHANGED <<stack, hist>>
  /\ UNCHANGED <<envVars, ftp, rs, df, dv, fsVars, statVars, last>>

\* ---- recurse ----
\* faulty variant: giving up on a directory ends the whole mirror
RecurseReturn_Abort ==
  /\ stack' = stack
  /\ pc' = "raised"

\* recurse returns to its caller: the parent's directory loop, or mirror_dir
RecurseReturn ==
  /\ stack' = SubSeq(stack, 1, Len(stack) - 1)
  /\ pc' = IF Len(stack) = 1 THEN "done" ELSE "recurse_dirs"

\* lines 685-691: list_entries raised
recurse_list_except ==
  /\ pc = "recurse_list_except"
  /\ IF LastAttempt(Top.retries + 1)
     THEN /\ RecurseReturn
          /\ UNCHANGED <<net, le>>
     ELSE \E c \in reconnect_ftp(net, Top.cur_ftp) :
            /\ net' = c.w
            /\ IF c.ok
               THEN /\ stack' = SetTop([Top EXCEPT !.cur_ftp = c.h,
                                   !.retries = @ + 1,
                                   !.slept = Append(@, RetrySleep(Top.retries + 1))])
                    /\ le' = [LeIdle EXCEPT !.ftp = c.h]
                    /\ pc' = "list_entries"
               ELSE /\ pc' = "raised"
                    /\ UNCHANGED <<stack, le>>
  /\ UNCHANGED <<envVars, ftp, rs, df, dv, fsVars, statVars, last, hist>>

\* lines 698-702: the next subdirectory: ensure its local directory and
\* recurse into it; after the last one the file loop starts
recurse_dirs ==
  /\ pc = "recurse_dirs"
  /\ IF Top.di <= Len(Top.dirs)
     THEN LET next_remote == NextRemote(Top.remote_dir, Top.dirs[Top.di].name)
              next_local == NextLocal(LocalDirOf(Top.remote_dir),
                                      Top.dirs[Top.di].name)
          IN /\ localDirs' = ensure_local_dir(localDirs, next_local)
             /\ IF Len(stack) < MaxDepth
                THEN /\ stack' = Append(SetTop([Top EXCEPT !.di = @ + 1]),
                                        NewFrame(next_remote))
                     /\ pc' = "recurse"
                ELSE /\ pc' = "raised"
                     /\ UNCHANGED stack
     ELSE /\ pc' = "recurse_files"
          /\ UNCHANGED <<localDirs, stack>>
  /\ UNCHANGED <<envVars, net, ftp, calleeVars, disk, part, statVars, last, hist>>

\* faulty variant: the exception is not caught in the file loop and leaves
\* recurse and mirror_dir
FileRaised_Propagate(err) ==
  /\ last' = [NoLast EXCEPT !.status = "raised", !.err = err,
                            !.r_size = df.r_size, !.skip = df.skip,
                            !.ref = df.ref, !.bytes0 = df.bytes0,
                            !.files0 = df.files0, !.file0 = df.file0]
  /\ df' = DfIdle
  /\ dv' = DvIdle
  /\ rs' = RsIdle
  /\ pc' = "raised"

\* an exception leaves download_file and is caught at line 716
FileRaised(err) ==
  /\ last' = [NoLast EXCEPT !.status = "raised", !.err = err,
                            !.r_size = df.r_size, !.skip = df.skip,
                            !.ref = df.ref, !.bytes0 = df.bytes0,
                            !.files0 = df.files0, !.file0 = df.file0]
  /\ df' = DfIdle
  /\ dv' = DvIdle
  /\ rs' = RsIdle
  /\ pc' = "file_done"

\* download_file returns stats to line 714
FileReturned(stats) ==
  /\ last' = [NoLast EXCEPT !.status = "returned", !.stats = stats,
                            !.r_size = df.r_size, !.skip = df.skip,
                            !.ref = df.ref, !.bytes0 = df.bytes0,
                            !.files0 = df.files0, !.file0 = df.file0]
  /\ df' = DfIdle
  /\ dv' = DvIdle
  /\ rs' = RsIdle
  /\ pc' = "file_done"

\* lines 705-709: the next file: r_size = remote_file_size(cur_ftp, ...)
\* for the progress line, then download_file(cur_ftp, ...); after the last
\* file recurse returns
recurse_files ==
  /\ pc = "recurse_files"
  /\ IF Top.fi <= Len(Top.files)
     THEN /\ hist' = [hist EXCEPT !.order = Append(@, CurRemote)]
          /\ IF CurEntry.fsize >= 0
             THEN /\ df' = [DfIdle EXCEPT !.ftp = Top.cur_ftp]
                  /\ rs' = RsIdle
                  /\ pc' = "download_file"
             ELSE /\ rs' = [RsIdle EXCEPT !.ftp = Top.cur_ftp, !.attempt = 1,
                                          !.caller = "recurse"]
                  /\ df' = DfIdle
                  /\ pc' = "remote_file_size"
          /\ UNCHANGED stack
     ELSE /\ RecurseReturn
          /\ UNCHANGED <<hist, df, rs>>
  /\ UNCHANGED <<envVars, net, ftp, le, dv, fsVars, statVars, last>>

\* ---- remote_file_size, lines 410-421: one attempt of the SIZE loop ----
\* (the size fact of the listing, lines 405-408, is used by the callers)
RsReturn(size) ==
  /\ rs' = RsIdle
  /\ IF rs.caller = "recurse"
     THEN /\ df' = [DfIdle EXCEPT !.ftp = Top.cur_ftp]
          /\ pc' = "download_file"
     ELSE /\ df' = [df EXCEPT !.r_size = size]
          /\ pc' = "df_decide"
  /\ UNCHANGED <<dv, last>>

remote_file_size ==
  /\ pc = "remote_file_size"
  /\ \E w1 \in IgnoredCmd(net, rs.ftp) :
     \E r \in Cmd(w1, rs.ftp) :
       IF r.ok
       THEN /\ net' = r.w
            /\ RsReturn(CurSize)
       ELSE \E c \in reconnect_ftp(r.w, rs.ftp) :
              /\ net' = c.w
              /\ IF ~c.ok
                 THEN IF rs.caller = "recurse"
                      THEN /\ pc' = "raised"
                           /\ rs' = RsIdle
                           /\ UNCHANGED <<df, dv, last>>
                      ELSE FileRaised("ConnectionError")
                 ELSE IF LastAttempt(rs.attempt)
                      THEN RsReturn(-1)
                      ELSE /\ rs' = [rs EXCEPT !.ftp = c.h, !.attempt = @ + 1,
                                       !.slept = Append(@, RetrySleep(rs.attempt))]
                           /\ UNCHANGED <<pc, df, dv, last>>
  /\ UNCHANGED <<envVars, ftp, stack, le, fsVars, statVars, hist>>

\* ---- download_file ----
\* lines 599-606: keepalive, TYPE I, r_size
download_file ==
  /\ pc = "download_file"
  /\ \E k \in keepalive(net, df.ftp) :
       IF ~k.ok
       THEN /\ net' = k.w
            /\ FileRaised("ConnectionError")
       ELSE \E w \in IgnoredCmd(k.w, k.h) :
              /\ net' = w
              /\ LET d == [df EXCEPT !.ftp = k.h,
                                     !.bytes0 = total_bytes_downloaded,
                                     !.files0 = total_files_synced,
                                     !.file0 = disk[CurLocal]]
                 IN IF CurEntry.fsize >= 0
                    THEN /\ df' = [d EXCEPT !.r_size = CurEntry.fsize]
                         /\ rs' = RsIdle
                         /\ pc' = "df_decide"
                    ELSE /\ df' = d
                         /\ rs' = [RsIdle EXCEPT !.ftp = k.h, !.attempt = 1,
                                                  !.caller = "download_file"]
                         /\ pc' = "remote_file_size"
              /\ UNCHANGED <<dv, last>>
  /\ UNCHANGED <<envVars, ftp, stack, le, fsVars, statVars, hist>>

\* _download_and_verify, lines 470-491: the resume decision for the local
\* file l, and the locals the transfer loop starts with
DvInit(h, l, caller) ==
  LET resume == RESUME_PARTIAL /\ l.exists /\ l.size > 0
  IN [DvIdle EXCEPT !.ftp = h,
                    !.rest = IF resume THEN l.size ELSE -1,
                    !.action = IF resume THEN "resumed" ELSE "downloaded",
                    !.attempt = 1, !.caller = caller,
                    !.l0 = IF l.exists THEN l.size ELSE 0]

\* lines 486-491: a fresh download removes a stale .part file
PartAtStart(d) ==
  IF d.rest = -1 THEN [part EXCEPT ![CurLocal] = NoFile] ELSE part

\* faulty variant: skips only a local file larger than the remote one
SkipCondition_Larger(l, r_size) ==
  SKIP_EXISTING_SAME_SIZE /\ l.exists /\ r_size # -1 /\ l.size > r_size

\* faulty variant: the size comparison is inverted
SkipCondition_Inverted(l, r_size) ==
  SKIP_EXISTING_SAME_SIZE /\ l.exists /\ r_size # -1 /\ l.size # r_size

\* line 613
SkipCondition(l, r_size) ==
  SKIP_EXISTING_SAME_SIZE /\ l.exists /\ r_size # -1 /\ l.size = r_size

\* lines 607-635: skip on equal size (with the opportunistic checksum) or
\* the call of _download_and_verify
df_decide ==
  /\ pc = "df_decide"
  /\ LET l == disk[CurLocal] IN
     IF SkipCondition(l, df.r_size)
     THEN \E h \in server_hash(net, df.ftp) :
            /\ net' = h.w
            /\ IF h.algo # NoAlgo /\ ~HashMatches(l, CurSize)
               THEN LET d == DvInit(df.ftp, NoFile, "skip") IN
                    /\ disk' = [disk EXCEPT ![CurLocal] = NoFile]
                    /\ dv' = d
                    /\ part' = PartAtStart(d)
                    /\ df' = [df EXCEPT !.skip = TRUE, !.ref = h.algo,
                                !.stats = [NoStats EXCEPT
                                             !.action = "skipped_same_size",
                                             !.verify = "FAIL_RELOAD",
                                             !.algo = h.algo]]
                    /\ pc' = "dv_transfer"
               ELSE /\ df' = [df EXCEPT !.skip = TRUE, !.ref = h.algo,
                                !.stats = [NoStats EXCEPT
                                             !.action = "skipped_same_size",
                                             !.verify = IF h.algo # NoAlgo
                                                        THEN "OK" ELSE "SIZE_ONLY",
                                             !.algo = h.algo]]
                    /\ pc' = "df_skip_end"
                    /\ UNCHANGED <<disk, part, dv>>
     ELSE LET d == DvInit(df.ftp, l, "normal") IN
          /\ dv' = d
          /\ part' = PartAtStart(d)
          /\ pc' = "dv_transfer"
          /\ UNCHANGED <<net, disk, df>>
  /\ UNCHANGED <<envVars, ftp, stack, le, rs, localDirs, statVars, last, hist>>

\* ---- _download_and_verify ----
\* the function returns stats to download_file (line 626 or line 635)
DvReturn(stats) ==
  /\ df' = [df EXCEPT !.stats = stats]
  /\ dv' = DvIdle
  /\ pc' = IF dv.caller = "skip" THEN "df_skip_end" ELSE "df_post"
  /\ UNCHANGED <<rs, last>>

\* the except clause of a transfer loop, lines 508-512 and 561-565:
\* reconnect, re-raise after the last attempt, else the next attempt of d
DvExcept(w, d) ==
  \E c \in reconnect_ftp(w, dv.ftp) :
    /\ net' = c.w
    /\ IF ~c.ok THEN FileRaised("ConnectionError")
       ELSE IF LastAttempt(dv.attempt) THEN FileRaised("TransferError")
       ELSE /\ dv' = [d EXCEPT !.ftp = c.h, !.attempt = @ + 1,
                            !.slept = Append(@, RetrySleep(dv.attempt))]
            /\ UNCHANGED <<pc, df, rs, last>>

\* the local file after n bytes were appended to l by a RETR from offset off
Appended(l, n, off, damaged) ==
  LFile(l.size + n,
        IF n = 0 THEN l.ok ELSE l.ok /\ l.size = off /\ ~damaged)

\* lines 503-506: RETR with rest=rest when resuming, else without
TransferOffset(d) == IF d.rest = -1 THEN 0 ELSE d.rest

\* faulty variant: the reload passes the restart offset of the first phase
ReloadOffset_Rest(d) == IF d.rest = -1 THEN 0 ELSE d.rest

\* line 558: the reload is a RETR without rest
ReloadOffset(d) == 0

\* faulty variant: a fresh download writes to the final path itself
WritesToPart_Never(d) == FALSE

\* line 484: tmp_path is local_path + ".part" unless the download resumes
WritesToPart(d) == d.rest = -1

\* lines 496-524: one attempt of the transfer loop; a completed fresh
\* download is renamed onto the final path
dv_transfer ==
  /\ pc = "dv_transfer"
  /\ LET l == disk[CurLocal]
         off == TransferOffset(dv)
     IN \E x \in retrbinary(net, dv.ftp, CurSize, off) :
          LET d == [dv EXCEPT !.bytes_dl = @ + x.n, !.lastOff = off,
                              !.lastN = CurSize - off]
          IN IF x.ok
             THEN /\ net' = x.w
                  /\ IF WritesToPart(dv)
                     THEN /\ disk' = [disk EXCEPT ![CurLocal] = LFile(x.n, ~x.damaged)]
                          /\ part' = [part EXCEPT ![CurLocal] = NoFile]
                     ELSE /\ disk' = [disk EXCEPT ![CurLocal] =
                                        Appended(l, x.n, off, x.damaged)]
                          /\ UNCHANGED part
                  /\ dv' = d
                  /\ pc' = "dv_verify"
                  /\ UNCHANGED <<df, rs, last>>
             ELSE /\ IF WritesToPart(dv)
                     THEN /\ part' = [part EXCEPT ![CurLocal] = LFile(x.n, TRUE)]
                          /\ UNCHANGED disk
                     ELSE /\ disk' = [disk EXCEPT ![CurLocal] =
                                        Appended(l, x.n, off, FALSE)]
                          /\ UNCHANGED part
                  /\ DvExcept(x.w, [d EXCEPT !.brokeAt =
                                      IF dv.rest = -1 THEN x.n ELSE l.size + x.n])
  /\ UNCHANGED <<envVars, ftp, stack, le, localDirs, statVars, hist>>

\* lines 528-541: the first verification
dv_verify ==
  /\ pc = "dv_verify"
  /\ \E h \in server_hash(net, dv.ftp) :
       /\ net' = h.w
       /\ IF h.algo = NoAlgo
          THEN /\ DvReturn([NoStats EXCEPT !.action = dv.action,
                              !.bytes = dv.bytes_dl, !.verify = "SIZE_ONLY"])
               /\ UNCHANGED disk
          ELSE IF HashMatches(disk[CurLocal], CurSize)
          THEN /\ DvReturn([NoStats EXCEPT !.action = dv.action,
                              !.bytes = dv.bytes_dl, !.verify = "OK",
                              !.algo = h.algo])
               /\ UNCHANGED disk
          ELSE /\ disk' = [disk EXCEPT ![CurLocal] = NoFile]
               /\ dv' = [dv EXCEPT !.attempt = 1, !.bytes_dl2 = 0,
                                   !.algo = h.algo, !.reloads = @ + 1,
                                   !.slept = <<>>]
               /\ pc' = "dv_reload"
               /\ UNCHANGED <<df, rs, last>>
  /\ UNCHANGED <<envVars, ftp, stack, le, localDirs, part, statVars, hist>>

\* lines 545-577: one attempt of the reload loop, then the second
\* verification against the reference fetched before
dv_reload ==
  /\ pc = "dv_reload"
  /\ \E x \in retrbinary(net, dv.ftp, CurSize, ReloadOffset(dv)) :
       LET d == [dv EXCEPT !.bytes_dl2 = @ + x.n,
                           !.lastOff = ReloadOffset(dv),
                           !.lastN = CurSize - ReloadOffset(dv)]
           f == LFile(x.n, ~x.damaged)
       IN IF x.ok
          THEN /\ net' = x.w
               /\ disk' = [disk EXCEPT ![CurLocal] = f]
               /\ part' = [part EXCEPT ![CurLocal] = NoFile]
               /\ IF HashMatches(f, CurSize)
                  THEN DvReturn([NoStats EXCEPT !.action = "re-downloaded",
                                   !.bytes = d.bytes_dl2, !.verify = "OK",
                                   !.algo = dv.algo, !.reloads = dv.reloads])
                  ELSE DvReturn([NoStats EXCEPT !.action = dv.action,
                                   !.bytes = dv.bytes_dl, !.verify = "FAIL",
                                   !.algo = dv.algo, !.reloads = dv.reloads])
          ELSE /\ part' = [part EXCEPT ![CurLocal] = LFile(x.n, TRUE)]
               /\ UNCHANGED disk
               /\ DvExcept(x.w, d)
  /\ UNCHANGED <<envVars, ftp, stack, le, localDirs, statVars, hist>>

\* ---- download_file, the two ends ----
\* lines 630-632: the end of the same-size branch
df_skip_end ==
  /\ pc = "df_skip_end"
  /\ total_files_synced' = total_files_synced + 1
  /\ \E k \in keepalive(net, df.ftp) :
       /\ net' = k.w
       /\ IF k.ok THEN FileReturned(df.stats)
          ELSE FileRaised("ConnectionError")
  /\ UNCHANGED <<envVars, ftp, stack, le, fsVars, total_bytes_downloaded,
                 total_dirs_synced, hist>>

\* faulty variant: the check after the download also rejects wrong content
SizeMismatch_Content(l, r_size) ==
  r_size # -1 /\ l.exists /\ (l.size # r_size \/ ~l.ok)

\* faulty variant: the size check after the download is missing
SizeMismatch_Never(l, r_size) == FALSE

\* lines 640-647
SizeMismatch(l, r_size) == r_size # -1 /\ l.exists /\ l.size # r_size

\* faulty variant: "=" in place of "+="
AddBytes_Assign(total, stats) == stats.bytes

\* line 636: total_bytes_downloaded += stats["bytes"]
AddBytes(total, stats) == total + stats.bytes

\* lines 636-650: statistics, the size check, keepalive
df_post ==
  /\ pc = "df_post"
  /\ total_bytes_downloaded' = AddBytes(total_bytes_downloaded, df.stats)
  /\ total_files_synced' = total_files_synced + 1
  /\ IF SizeMismatch(disk[CurLocal], df.r_size)
     THEN /\ disk' = [disk EXCEPT ![CurLocal] = NoFile]
          /\ FileRaised("Size mismatch")
          /\ UNCHANGED net
     ELSE /\ UNCHANGED disk
          /\ \E k \in keepalive(net, df.ftp) :
               /\ net' = k.w
               /\ IF k.ok THEN FileReturned(df.stats)
                  ELSE FileRaised("ConnectionError")
  /\ UNCHANGED <<envVars, ftp, stack, le, localDirs, part,
                 total_dirs_synced, hist>>

\* lines 713-717: the result is printed or the exception is caught and
\* warned about; the loop goes to the next file
file_done ==
  /\ pc = "file_done"
  /\ hist' = [hist EXCEPT !.outcome[CurLocal] =
                [status |-> last.status, err |-> last.err,
                 action |-> last.stats.action,
                 verify |-> last.stats.verify]]
  /\ stack' = SetTop([Top EXCEPT !.fi = @ + 1])
  /\ last' = NoLast
  /\ pc' = "recurse_files"
  /\ UNCHANGED <<envVars, net, ftp, calleeVars, fsVars, statVars>>

\* ---- the end of main, and a second run of the script ----
InitNet == [nconn |-> 0, open |-> {}, HASH_SUPPORTED |-> FALSE,
            HASH_ALGO |-> NoAlgo, XCRC_SUPPORTED |-> FALSE, faults |-> 0,
            staleUse |-> FALSE, caps_ftp |-> 0]

NoOutcome == [status |-> "none", err |-> "none", action |-> "none",
              verify |-> "none"]
GoodOutcome(o) == o.status = "returned" /\ o.verify \in {"OK", "SIZE_ONLY"}

\* lines 753-761: finally: ftp.quit() on main's connection variable; the
\* process ends and with it every connection it still holds
finish ==
  /\ pc \in {"done", "raised"}
  /\ pc' = IF pc = "done" THEN "exit" ELSE "aborted"
  /\ stack' = <<>>
  /\ \E w \in IgnoredCmd(net, ftp) :
     /\ net' = [w EXCEPT !.open = {}]
     /\ hist' = IF run = 1
                THEN [hist EXCEPT !.first =
                        [ended |-> IF pc = "done" THEN "exit" ELSE "aborted",
                         localDirs |-> localDirs, disk |-> disk,
                         faults |-> w.faults,
                         good |-> \A p \in DOMAIN disk : GoodOutcome(hist.outcome[p])]]
                ELSE hist
  /\ UNCHANGED <<envVars, ftp, calleeVars, fsVars, statVars, last>>

\* after a completed run the script is started again: a new process with
\* fresh globals, the same server and remote tree, the local disk as the
\* first run left it
restart ==
  /\ pc = "exit"
  /\ run = 1
  /\ run' = 2
  /\ pc' = "main"
  /\ net' = [InitNet EXCEPT !.faults = net.faults]
  /\ ftp' = 0
  /\ stack' = <<>>
  /\ total_bytes_downloaded' = 0
  /\ total_files_synced' = 0
  /\ total_dirs_synced' = 0
  /\ last' = NoLast
  /\ hist' = [hist EXCEPT !.listed = {}, !.order = <<>>, !.entered = <<>>,
                          !.outcome = [p \in DOMAIN disk |-> NoOutcome]]
  /\ UNCHANGED <<tree, server, cf, ls, sh, calleeVars, fsVars>>

\* ---- initial states ----
\* what a local file of a remote file of size n can be before the first
\* run: missing, complete, complete with damaged bytes, or a partial copy
FileInits(n) ==
  {NoFile, LFile(n, TRUE), LFile(n, FALSE)}
  \cup {LFile(k, TRUE) : k \in 1..(n - 1)}

DiskInits(t) ==
  {d \in [LocalFiles(t) -> UNION {FileInits(k) : k \in 0..MaxSize}] :
     /\ \A p \in RemoteFiles(t) : d[LocalPathOf(p)] \in FileInits(RemoteSize(t, p))
     /\ Cardinality({p \in LocalFiles(t) : d[p].exists}) <= MaxLocal}

RECURSIVE Ancestors(_)
Ancestors(p) == IF Len(p) <= 1 THEN {p} ELSE {p} \cup Ancestors(Parent(p))

\* the local directories that hold the files of disk d
DirsOf(d) == UNION {Ancestors(Parent(p)) : p \in {q \in DOMAIN d : d[q].exists}}

Init ==
  /\ pc = "main"
  /\ run = 1
  /\ tree \in Trees
  /\ server \in Servers
  /\ net = InitNet
  /\ ftp = 0
  /\ stack = <<>>
  /\ le = LeIdle
  /\ rs = RsIdle
  /\ df = DfIdle
  /\ dv = DvIdle
  /\ disk \in DiskInits(tree)
  /\ part = [p \in LocalFiles(tree) |-> NoFile]
  /\ localDirs = DirsOf(disk)
  /\ total_bytes_downloaded = 0
  /\ total_files_synced = 0
  /\ total_dirs_synced = 0
  /\ last = NoLast
  /\ hist = [listed |-> {}, order |-> <<>>, entered |-> <<>>,
             outcome |-> [p \in LocalFiles(tree) |-> NoOutcome],
             disk0 |-> disk,
             first |-> [ended |-> "none", localDirs |-> {}, disk |-> disk,
                        faults |-> 0, good |-> FALSE]]
  /\ cf = CfIdle
  /\ ls = LsIdle
  /\ sh = ShIdle

Next ==
  \/ main
  \/ recurse_enter
  \/ recurse_keepalive
  \/ list_entries
  \/ le_pwd
  \/ le_cwd
  \/ le_mlsd
  \/ le_except
  \/ recurse_list_except
  \/ recurse_dirs
  \/ recurse_files
  \/ remote_file_size
  \/ download_file
  \/ df_decide
  \/ dv_transfer
  \/ dv_verify
  \/ dv_reload
  \/ df_skip_end
  \/ df_post
  \/ file_done
  \/ finish
  \/ restart

Spec == Init /\ [][Next]_vars

\* ---- a mirror run against a server that lists the current directory by
\* its path ----
CdirInit ==
  /\ pc = "main"
  /\ run = 1
  /\ tree = TreeCdir
  /\ server \in Servers
  /\ net = InitNet
  /\ ftp = 0
  /\ stack = <<>>
  /\ le = LeIdle
  /\ rs = RsIdle
  /\ df = DfIdle
  /\ dv = DvIdle
  /\ disk \in DiskInits(tree)
  /\ part = [p \in LocalFiles(tree) |-> NoFile]
  /\ localDirs = DirsOf(disk)
  /\ total_bytes_downloaded = 0
  /\ total_files_synced = 0
  /\ total_dirs_synced = 0
  /\ last = NoLast
  /\ hist = [listed |-> {}, order |-> <<>>, entered |-> <<>>,
             outcome |-> [p \in LocalFiles(tree) |-> NoOutcome],
             disk0 |-> disk,
             first |-> [ended |-> "none", localDirs |-> {}, disk |-> disk,
                        faults |-> 0, good |-> FALSE]]
  /\ cf = CfIdle
  /\ ls = LsIdle
  /\ sh = ShIdle

SpecCdir == CdirInit /\ [][Next]_vars

\* ---- connect_ftp on its own: the attempt loop, lines 197-221 ----

\* everything but the locals of connect_ftp
mirrorVars == <<pc, run, tree, server, net, ftp, stack, le, rs, df, dv,
                localDirs, disk, part, total_bytes_downloaded,
                total_files_synced, total_dirs_synced, last, hist>>

\* what ftplib raises from FTP.connect and from FTP.login
ConnectErrors == {"timeout", "refused"}
LoginErrors == {"timeout", "login"}

\* faulty variant: the same wait after every failed attempt
SleepAfter_Flat(attempt) == SLEEP_BETWEEN_RETRIES

\* line 218: time.sleep(SLEEP_BETWEEN_RETRIES * attempt)
SleepAfter(attempt) == SLEEP_BETWEEN_RETRIES * attempt

\* lines 200-201: a new FTP object and ftp.connect(...)
cf_connect ==
  /\ pc = "connect_ftp"
  /\ cf.pc = "connect"
  /\ \/ cf' = [cf EXCEPT !.made = @ + 1, !.pc = "login"]
     \/ \E e \in ConnectErrors :
          cf' = [cf EXCEPT !.made = @ + 1, !.last_err = e,
                           !.errs = Append(@, e), !.pc = "except"]
  /\ UNCHANGED <<mirrorVars, ls, sh>>

\* lines 202-203: ftp.login(...), ftp.set_pasv(...)
cf_login ==
  /\ pc = "connect_ftp"
  /\ cf.pc = "login"
  /\ \/ cf' = [cf EXCEPT !.pc = "options"]
     \/ \E e \in LoginErrors :
          cf' = [cf EXCEPT !.last_err = e, !.errs = Append(@, e),
                           !.pc = "except"]
  /\ UNCHANGED <<mirrorVars, ls, sh>>

\* lines 205-214: SO_KEEPALIVE and TYPE I, their errors ignored; return ftp
cf_return ==
  /\ pc = "connect_ftp"
  /\ cf.pc = "options"
  /\ \E t \in BOOLEAN :
       cf' = [cf EXCEPT !.type_i = t, !.result = "returned", !.pc = "end"]
  /\ UNCHANGED <<mirrorVars, ls, sh>>

\* lines 215-221: sleep and the next attempt, or raise last_err
cf_except ==
  /\ pc = "connect_ftp"
  /\ cf.pc = "except"
  /\ IF cf.attempt < MAX_RETRIES
     THEN cf' = [cf EXCEPT !.slept = Append(@, SleepAfter(cf.attempt)),
                           !.attempt = @ + 1, !.pc = "connect"]
     ELSE cf' = [cf EXCEPT !.result = "raised", !.raised = cf.last_err,
                           !.pc = "end"]
  /\ UNCHANGED <<mirrorVars, ls, sh>>

\* a call of connect_ftp by main (line 748) or reconnect_ftp (line 233),
\* for either tree and any server
ConnectInit ==
  /\ pc = "connect_ftp"
  /\ run = 1
  /\ tree \in Trees
  /\ server \in Servers
  /\ net = InitNet
  /\ ftp = 0
  /\ stack = <<>>
  /\ le = LeIdle
  /\ rs = RsIdle
  /\ df = DfIdle
  /\ dv = DvIdle
  /\ disk = [p \in LocalFiles(tree) |-> NoFile]
  /\ part = [p \in LocalFiles(tree) |-> NoFile]
  /\ localDirs = {}
  /\ total_bytes_downloaded = 0
  /\ total_files_synced = 0
  /\ total_dirs_synced = 0
  /\ last = NoLast
  /\ hist = [listed |-> {}, order |-> <<>>, entered |-> <<>>,
             outcome |-> [p \in LocalFiles(tree) |-> NoOutcome],
             disk0 |-> disk,
             first |-> [ended |-> "none", localDirs |-> {}, disk |-> disk,
                        faults |-> 0, good |-> FALSE]]
  /\ cf = [CfIdle EXCEPT !.pc = "connect"]
  /\ ls = LsIdle
  /\ sh = ShIdle

ConnectNext ==
  \/ cf_connect
  \/ cf_login
  \/ cf_return
  \/ cf_except

SpecConnect == ConnectInit /\ [][ConnectNext]_vars

\* ---- the MLSD loop of list_entries on its own, lines 354-369, and the
\* split and descent of recurse, lines 694-702 ----
MaxEntries == 2   \* entries of one MLSD answer

\* the directory that is listed, and the names a server may give its
\* entries: relative names, the dot names, and full paths
LsDir == base_remote \o <<"A">>
LsNames == {".", "..", "B", "f1", "/pub", "/pub/A"}
LsTypes == {"dir", "cdir", "pdir", "file", "OS.unix=slink"}
LsEntries ==
  {e \in [name : LsNames, type : LsTypes, size : {-1, 1}, probe : BOOLEAN] :
     /\ e.size = 1 <=> e.type = "file"
     /\ e.probe => e.type = "OS.unix=slink"}

\* MLSD answers: up to MaxEntries entries with different names
RawListings ==
  {r \in UNION {[1..n -> LsEntries] : n \in 0..MaxEntries} :
     \A i, j \in 1..Len(r) : i # j => r[i].name # r[j].name}

\* lines 354-369: the loop over ftp.mlsd() and return items
ls_mlsd ==
  /\ pc = "mlsd"
  /\ ls.pc = "mlsd"
  /\ ls' = [ls EXCEPT !.items = mlsd_items(ls.raw, 1), !.pc = "split"]
  /\ UNCHANGED <<mirrorVars, cf, sh>>

\* lines 694-702: dirs of the entries and the directories recurse is
\* called for
ls_split ==
  /\ pc = "mlsd"
  /\ ls.pc = "split"
  /\ LET dirs == SelectSeq(ls.items, IsDirItem)
     IN ls' = [ls EXCEPT !.dirs = [k \in 1..Len(dirs) |->
                                    NextRemote(LsDir, dirs[k].name)],
                         !.pc = "end"]
  /\ UNCHANGED <<mirrorVars, cf, sh>>

ListingInit ==
  /\ pc = "mlsd"
  /\ run = 1
  /\ tree = TreeDeep
  /\ server = ServerPlain
  /\ net = InitNet
  /\ ftp = 0
  /\ stack = <<>>
  /\ le = LeIdle
  /\ rs = RsIdle
  /\ df = DfIdle
  /\ dv = DvIdle
  /\ disk = [p \in LocalFiles(tree) |-> NoFile]
  /\ part = [p \in LocalFiles(tree) |-> NoFile]
  /\ localDirs = {}
  /\ total_bytes_downloaded = 0
  /\ total_files_synced = 0
  /\ total_dirs_synced = 0
  /\ last = NoLast
  /\ hist = [listed |-> {}, order |-> <<>>, entered |-> <<>>,
             outcome |-> [p \in LocalFiles(tree) |-> NoOutcome],
             disk0 |-> disk,
             first |-> [ended |-> "none", localDirs |-> {}, disk |-> disk,
                        faults |-> 0, good |-> FALSE]]
  /\ cf = CfIdle
  /\ ls \in {[LsIdle EXCEPT !.pc = "mlsd", !.raw = r] : r \in RawListings}
  /\ sh = ShIdle

ListingNext ==
  \/ ls_mlsd
  \/ ls_split

SpecListing == ListingInit /\ [][ListingNext]_vars

\* ---- setup_hash_features on its own: lines 245-278 step by step ----
AlgoNames == {"CRC32", "MD5", "SHA-1", "SHA-256", "SHA-512"}

\* servers: the algorithms of the HASH line of FEAT, the ones OPTS HASH
\* accepts, and whether FEAT names XCRC
NegServers ==
  {s \in [algos : SUBSET AlgoNames, accept : SUBSET AlgoNames,
          xcrc : BOOLEAN] : s.accept \subseteq s.algos}

\* faulty variant: the loop goes on after an accepted activation
AfterAccept_Continue(i) == i + 1

\* line 270: break leaves the preference loop
AfterAccept(i) == Len(PREFERRED_HASH_ALGOS) + 1

\* lines 251-253: the three globals are reset
sh_reset ==
  /\ pc = "setup_hash_features"
  /\ sh.pc = "reset"
  /\ sh' = [sh EXCEPT !.HASH_SUPPORTED = FALSE, !.HASH_ALGO = NoAlgo,
                      !.XCRC_SUPPORTED = FALSE, !.pc = "feat"]
  /\ UNCHANGED <<mirrorVars, cf, ls>>

\* lines 255-264: FEAT and the HASH line; an exception of FEAT is
\* swallowed at lines 277-278 and the function returns
sh_feat ==
  /\ pc = "setup_hash_features"
  /\ sh.pc = "feat"
  /\ \E ok \in BOOLEAN :
       sh' = IF ok
             THEN [sh EXCEPT !.feat = "ok", !.i = 1,
                             !.pc = IF server.algos # {} THEN "pref"
                                    ELSE "xcrc"]
             ELSE [sh EXCEPT !.feat = "failed", !.raised = FALSE,
                             !.pc = "end"]
  /\ UNCHANGED <<mirrorVars, cf, ls>>

\* lines 265-273: one iteration of the loop over PREFERRED_HASH_ALGOS;
\* OPTS HASH fails when the server refuses the algorithm or the command
\* breaks
sh_pref ==
  /\ pc = "setup_hash_features"
  /\ sh.pc = "pref"
  /\ IF sh.i > Len(PREFERRED_HASH_ALGOS)
     THEN sh' = [sh EXCEPT !.pc = "xcrc"]
     ELSE LET pref == PREFERRED_HASH_ALGOS[sh.i] IN
          IF pref \notin server.algos
          THEN sh' = [sh EXCEPT !.i = @ + 1]
          ELSE \E ok \in {FALSE} \cup {b \in {TRUE} : pref \in server.accept} :
                 LET o == Append(sh.opts, [pref |-> pref, ok |-> ok])
                 IN sh' = IF ok
                          THEN [sh EXCEPT !.opts = o, !.HASH_SUPPORTED = TRUE,
                                          !.HASH_ALGO = pref,
                                          !.i = AfterAccept(sh.i)]
                          ELSE [sh EXCEPT !.opts = o, !.i = @ + 1]
  /\ UNCHANGED <<mirrorVars, cf, ls>>

\* lines 275-276: XCRC or SITE CRC in the FEAT answer
sh_xcrc ==
  /\ pc = "setup_hash_features"
  /\ sh.pc = "xcrc"
  /\ sh' = [sh EXCEPT !.XCRC_SUPPORTED = server.xcrc, !.pc = "end"]
  /\ UNCHANGED <<mirrorVars, cf, ls>>

\* the globals hold what an earlier connection negotiated
NegotiateInit ==
  /\ pc = "setup_hash_features"
  /\ run = 1
  /\ tree = TreeDeep
  /\ server \in NegServers
  /\ net = InitNet
  /\ ftp = 0
  /\ stack = <<>>
  /\ le = LeIdle
  /\ rs = RsIdle
  /\ df = DfIdle
  /\ dv = DvIdle
  /\ disk = [p \in LocalFiles(tree) |-> NoFile]
  /\ part = [p \in LocalFiles(tree) |-> NoFile]
  /\ localDirs = {}
  /\ total_bytes_downloaded = 0
  /\ total_files_synced = 0
  /\ total_dirs_synced = 0
  /\ last = NoLast
  /\ hist = [listed |-> {}, order |-> <<>>, entered |-> <<>>,
             outcome |-> [p \in LocalFiles(tree) |-> NoOutcome],
             disk0 |-> disk,
             first |-> [ended |-> "none", localDirs |-> {}, disk |-> disk,
                        faults |-> 0, good |-> FALSE]]
  /\ cf = CfIdle
  /\ ls = LsIdle
  /\ sh \in {[ShIdle EXCEPT !.pc = "reset", !.HASH_SUPPORTED = (a # NoAlgo),
                            !.HASH_ALGO = a, !.XCRC_SUPPORTED = x]
             : a \in {NoAlgo, "MD5"}, x \in BOOLEAN}

NegotiateNext ==
  \/ sh_reset
  \/ sh_feat
  \/ sh_pref
  \/ sh_xcrc

SpecNegotiate == NegotiateInit /\ [][NegotiateNext]_vars

\* ======================= properties =======================
\* The directory a remote directory is expected at: the local root
\* followed by the path below the remote root.
ExpectedLocalDir(d) == base_local \o SubSeq(d, Len(base_remote) + 1, Len(d))
ExpectedLocalFile(p) == base_local \o SubSeq(p, Len(base_remote) + 1, Len(p))

\* the remote directories strictly above remote path p, from the root
ProperAncestors(p) == {SubSeq(p, 1, k) : k \in Len(base_remote)..(Len(p) - 1)}

\* the file visits of this run that came back with a result or an error
FileFailed(p) == hist.outcome[ExpectedLocalFile(p)].status = "raised"

C2_SizeWhenVerified ==
  (/\ pc = "file_done"
   /\ last.status = "returned"
   /\ last.stats.verify \in {"OK", "SIZE_ONLY"}
   /\ last.r_size # -1)
  => /\ disk[ExpectedLocalFile(CurRemote)].exists
     /\ disk[ExpectedLocalFile(CurRemote)].size = last.r_size

\* C2 witness: the same-size branch re-downloaded after a checksum
\* mismatch and ended OK.
C2_Witness ==
  /\ pc = "file_done"
  /\ last.status = "returned"
  /\ last.skip
  /\ last.stats.action = "downloaded"
  /\ last.stats.verify = "OK"
  /\ last.r_size = disk[ExpectedLocalFile(CurRemote)].size

\* C3 as stated: a resumed download of a local file of size L, 0 < L < R,
\* whose transfer loop ended in success requested R-L bytes from offset L
\* and left a local file of size R.
C3_ResumeExact ==
  (/\ pc = "dv_verify"
   /\ dv.rest # -1
   /\ 0 < dv.l0
   /\ dv.l0 < CurSize)
  => /\ dv.lastOff = dv.l0
     /\ dv.lastN = CurSize - dv.l0
     /\ disk[ExpectedLocalFile(CurRemote)].size = CurSize

\* C4: a mismatch at the first verification starts the one reload, which
\* downloads the whole file from offset 0 through the temporary file; FAIL
\* is returned only by the second verification; a call never starts a
\* second reload.
C4_OneReload ==
  [][LET f == ExpectedLocalFile(CurRemote)
         returns == {"df_post", "df_skip_end"}
     IN /\ (pc = "dv_verify" /\ pc' \in returns) =>
              /\ df'.stats.verify \in {"OK", "SIZE_ONLY"}
              /\ df'.stats.reloads = 0
        /\ (pc = "dv_verify" /\ pc' = "dv_reload") =>
              /\ dv'.reloads = 1
              /\ ~disk'[f].exists
        /\ (pc = "dv_reload" /\ pc' = "dv_reload") =>
              /\ dv'.reloads = 1
              /\ dv'.lastOff = 0
              /\ ~disk'[f].exists
              /\ part'[f].exists
              /\ part'[f].size = dv'.bytes_dl2 - dv.bytes_dl2
        /\ (pc = "dv_reload" /\ pc' \in returns) =>
              /\ df'.stats.reloads = 1
              /\ disk'[f].exists /\ disk'[f].size = CurSize
              /\ ~part'[f].exists
              /\ df'.stats.verify \in {"OK", "FAIL"}
              /\ df'.stats.verify = "FAIL" <=> ~(disk'[f].ok)
        /\ (pc' \in returns /\ pc \notin returns /\ df'.stats.verify = "FAIL") =>
              pc = "dv_reload"
        /\ pc = "dv_reload" => pc' \in {"dv_reload", "file_done"} \cup returns
    ]_vars

\* C4 witness: _download_and_verify has returned FAIL after its reload.
C4_Witness ==
  /\ pc \in {"df_post", "df_skip_end"}
  /\ df.stats.verify = "FAIL"
  /\ df.stats.reloads = 1

\* the local files that exist, with their sizes
Structure(d) == {<<p, d[p].size>> : p \in {q \in DOMAIN d : d[q].exists}}
Skipped(p) == /\ hist.outcome[ExpectedLocalFile(p)].status = "returned"
              /\ hist.outcome[ExpectedLocalFile(p)].action = "skipped_same_size"

FirstRunComplete ==
  /\ hist.first.ended = "exit"
  /\ \A d \in RemoteDirs(tree) : ExpectedLocalDir(d) \in hist.first.localDirs
  /\ \A p \in RemoteFiles(tree) :
       /\ hist.first.disk[ExpectedLocalFile(p)].exists
       /\ hist.first.disk[ExpectedLocalFile(p)].size = RemoteSize(tree, p)

RECURSIVE SumSizes(_)
SumSizes(S) ==
  IF S = {} THEN 0
  ELSE LET p == CHOOSE q \in S : TRUE
       IN RemoteSize(tree, p) + SumSizes(S \ {p})

\* C6: no local copies, no checksum capability, no failure: after the run
\* every remote file is there with its size and SIZE_ONLY, and the three
\* counters are the numbers of directories and files and the sum of sizes.
C6_CleanRun ==
  (/\ pc = "exit" /\ run = 1
   /\ net.faults = 0
   /\ server.algos = {} /\ ~server.xcrc
   /\ \A q \in DOMAIN hist.disk0 : ~hist.disk0[q].exists)
  => /\ \A p \in RemoteFiles(tree) :
          /\ disk[ExpectedLocalFile(p)] = LFile(RemoteSize(tree, p), TRUE)
          /\ hist.outcome[ExpectedLocalFile(p)].status = "returned"
          /\ hist.outcome[ExpectedLocalFile(p)].verify = "SIZE_ONLY"
     /\ total_dirs_synced = Cardinality(RemoteDirs(tree))
     /\ total_files_synced = Cardinality(RemoteFiles(tree))
     /\ total_bytes_downloaded = SumSizes(RemoteFiles(tree))

\* C6 witness: such a run of the tree with two directories below the root
\* has ended.
C6_Witness ==
  /\ pc = "exit" /\ run = 1
  /\ net.faults = 0
  /\ server.algos = {} /\ ~server.xcrc
  /\ \A q \in DOMAIN hist.disk0 : ~hist.disk0[q].exists
  /\ total_files_synced >= 2
  /\ total_bytes_downloaded = SumSizes(RemoteFiles(tree))

\* C7: the local file existed with the known remote size and no checksum
\* reference was available: download_file took the same-size branch,
\* returned skipped_same_size, left total bytes and the file unchanged and
\* counted one file.
C7_SkipFrame ==
  (/\ pc = "file_done"
   /\ last.status = "returned"
   /\ last.file0.exists
   /\ last.r_size # -1
   /\ last.file0.size = last.r_size
   /\ last.skip => last.ref = NoAlgo)
  => /\ last.skip
     /\ last.stats.action = "skipped_same_size"
     /\ last.stats.bytes = 0
     /\ total_bytes_downloaded = last.bytes0
     /\ disk[ExpectedLocalFile(CurRemote)] = last.file0
     /\ total_files_synced = last.files0 + 1

\* C7 witness: download_file has returned from the same-size branch
\* without a reference.
C7_Witness ==
  /\ pc = "file_done"
  /\ last.status = "returned"
  /\ last.skip
  /\ last.ref = NoAlgo
  /\ last.stats.verify = "SIZE_ONLY"
  /\ total_files_synced = last.files0 + 1

\* C8 as stated: when an attempt broke with K >= 1 bytes of the file on
\* disk and the transfer loop then ended in success, the last request
\* started at offset K, the local size is the remote size and the action
\* is resumed.
C8_ContinuesAtBreak ==
  (pc = "dv_verify" /\ dv.brokeAt >= 1)
  => /\ dv.lastOff = dv.brokeAt
     /\ disk[ExpectedLocalFile(CurRemote)].size = CurSize
     /\ dv.action = "resumed"

\* the remote files whose directory and its ancestors were listed completely
ReachableFiles ==
  {p \in RemoteFiles(tree) : ProperAncestors(p) \subseteq hist.listed}
ReachableDirs ==
  {d \in RemoteDirs(tree) : ProperAncestors(d) \subseteq hist.listed}
Range(q) == {q[i] : i \in 1..Len(q)}

C10_NoCommandOnClosed == ~net.staleUse

\* the connections some variable of the running call chain still refers to:
\* mirror_dir's ftp, the cur_ftp of every active recurse, the ftp of the
\* running callees
HeldConnections ==
  {ftp} \cup {stack[i].cur_ftp : i \in 1..Len(stack)}
        \cup {le.ftp, rs.ftp, df.ftp, dv.ftp}

\* C11 as stated: at most one control connection is open at any time.  Only
\* connections the program still refers to are counted, so a connection the
\* runtime may have reclaimed with its last reference does not count.
C11_AtMostOneOpen == Cardinality(net.open \cap HeldConnections) <= 1

\* C12: connect_ftp starts at most MAX_RETRIES attempts; the k-th failed
\* attempt, k < MAX_RETRIES, is followed by a sleep of
\* SLEEP_BETWEEN_RETRIES * k; it returns the first connection that is
\* established, with no attempt after it; when all MAX_RETRIES attempts
\* failed it raises the error of the last one and returns nothing.
C12_ConnectAttempts ==
  /\ cf.made <= MAX_RETRIES
  /\ cf.made \in {Len(cf.errs), Len(cf.errs) + 1}
  /\ Len(cf.slept) <= MAX_RETRIES - 1
  /\ Len(cf.slept) \in {Len(cf.errs), Len(cf.errs) - 1}
  /\ \A k \in 1..Len(cf.slept) : cf.slept[k] = SLEEP_BETWEEN_RETRIES * k
  /\ cf.pc = "connect" => Len(cf.slept) = Len(cf.errs)
  /\ cf.result = "returned" =>
       /\ cf.pc = "end"
       /\ cf.made = Len(cf.errs) + 1
       /\ Len(cf.slept) = Len(cf.errs)
       /\ cf.raised = "none"
  /\ cf.result = "raised" =>
       /\ cf.pc = "end"
       /\ cf.made = MAX_RETRIES
       /\ Len(cf.errs) = MAX_RETRIES
       /\ Len(cf.slept) = MAX_RETRIES - 1
       /\ cf.raised = cf.errs[MAX_RETRIES]
  /\ cf.pc = "end" <=> cf.result # "none"
  /\ (cf.pc = "except" /\ Len(cf.errs) < MAX_RETRIES) => cf.attempt < MAX_RETRIES

\* C12 witness: all attempts failed, with different errors, and the last
\* one was raised after sleeps of 2 and 4.
C12_Witness ==
  /\ cf.result = "raised"
  /\ cf.errs = <<"refused", "timeout", "login">>
  /\ cf.raised = "login"
  /\ cf.slept = <<SLEEP_BETWEEN_RETRIES, 2 * SLEEP_BETWEEN_RETRIES>>

\* C13 as stated: list_entries hands back fewer entries than the directory
\* has (the empty list caused by a failure) only from its last line, after
\* MAX_RETRIES attempts have failed and each was followed by a reconnect.
C13_EmptyOnlyAfterRetries ==
  [][(/\ pc \in {"le_mlsd", "le_except"}
      /\ pc' = "recurse_dirs"
      /\ Len(Top'.dirs) + Len(Top'.files) < Len(tree[Top.remote_dir]))
     => (pc = "le_except" /\ le.attempt >= MAX_RETRIES)]_vars

\* the directories recurse entered whose listing did not come back complete
ListingFailed == {d \in Range(hist.entered) : d \notin hist.listed}
Below(d, x) == IsPrefix(d, x) /\ x # d

\* a directory whose listing failed: nothing below it was visited, it was
\* counted and its local directory exists
SubtreeAbandoned ==
  /\ total_dirs_synced = Len(hist.entered)
  /\ \A d \in ListingFailed :
       /\ \A x \in Range(hist.entered) : ~Below(d, x)
       /\ \A p \in Range(hist.order) : ~IsPrefix(d, p)
       /\ ExpectedLocalDir(d) \in localDirs

C15_EveryVisitCounted ==
  (/\ pc = "file_done"
   /\ \/ last.status = "returned"
      \/ last.err \in {"TransferError", "Size mismatch"})
  => total_files_synced = last.files0 + 1

\* where the entry called name stands in the listing of directory d
ListingIndex(d, name) == CHOOSE i \in 1..Len(tree[d]) : tree[d][i].name = name
ListingPcs == {"recurse_keepalive", "list_entries", "le_pwd", "le_cwd",
               "le_mlsd", "le_except", "recurse_list_except"}

\* the order of the traversal as far as one state shows it
DepthFirst ==
  /\ (pc \in ListingPcs \cup {"recurse"}) =>
        ExpectedLocalDir(Top.remote_dir) \in localDirs
  /\ \A i, j \in 1..Len(hist.entered) :
       (/\ i < j
        /\ Len(hist.entered[i]) > Len(base_remote)
        /\ Len(hist.entered[j]) > Len(base_remote)
        /\ Parent(hist.entered[i]) = Parent(hist.entered[j]))
       => ListingIndex(Parent(hist.entered[i]), hist.entered[i][Len(hist.entered[i])])
            < ListingIndex(Parent(hist.entered[j]), hist.entered[j][Len(hist.entered[j])])
  /\ \A i, j \in 1..Len(hist.order) :
       i < j => ~Below(Parent(hist.order[i]), Parent(hist.order[j]))
  /\ \A p \in Range(hist.order) :
       /\ \A i \in 1..Len(tree[Parent(p)]) :
            tree[Parent(p)][i].kind = "dir" =>
              Parent(p) \o <<tree[Parent(p)][i].name>> \in Range(hist.entered)
       /\ \A k \in 1..Len(stack) : ~Below(Parent(p), stack[k].remote_dir)

C17_CapabilitiesOfUsedConnection ==
  /\ (pc = "dv_verify" /\ dv.ftp \in net.open) => net.caps_ftp = dv.ftp
  /\ (/\ pc = "df_decide"
      /\ df.ftp \in net.open
      /\ disk[ExpectedLocalFile(CurRemote)].exists
      /\ df.r_size # -1
      /\ disk[ExpectedLocalFile(CurRemote)].size = df.r_size)
     => net.caps_ftp = df.ftp

\* C18 as stated: with a checksum capability recorded and the connection
\* open, one failed checksum query (in the verification after a transfer
\* or in the same-size branch) does not end in verification SIZE_ONLY: the
\* query is retried.
C18_HashQueryRetried ==
  [][(/\ pc \in {"dv_verify", "df_decide"}
      /\ pc' \in {"df_post", "df_skip_end"}
      /\ net.HASH_SUPPORTED \/ net.XCRC_SUPPORTED
      /\ (IF pc = "dv_verify" THEN dv.ftp ELSE df.ftp) \in net.open
      /\ net'.faults = net.faults + 1)
     => df'.stats.verify # "SIZE_ONLY"]_vars

\* C19 as stated: an MLSD entry of type cdir or pdir is not among the items
\* list_entries returns, whatever its name, and recurse is never called for
\* the listed directory itself or for its parent.
C19_NoCurrentOrParent ==
  /\ ls.pc \in {"split", "end"} =>
       \A i \in 1..Len(ls.raw) :
         ls.raw[i].type \in {"cdir", "pdir"} =>
           \A k \in 1..Len(ls.items) : ls.items[k].name # ls.raw[i].name
  /\ ls.pc = "end" =>
       \A k \in 1..Len(ls.dirs) : ls.dirs[k] \notin {LsDir, Parent(LsDir)}

\* C20: when the file of the one reload does not match the reference
\* either, _download_and_verify returns FAIL with the algorithm and raises
\* nothing, the reloaded file is at the final path (no temporary file is
\* left), and download_file returns these stats with the file in place; the
\* only error it can still raise is a failed reconnect of its last
\* keepalive.
C20_FailIsReported ==
  [][LET f == ExpectedLocalFile(CurRemote)
         returns == {"df_post", "df_skip_end"}
     IN /\ (pc = "dv_reload" /\ disk'[f].exists /\ ~disk'[f].ok) =>
              /\ pc' \in returns
              /\ df'.stats.verify = "FAIL"
              /\ df'.stats.algo # NoAlgo
              /\ disk'[f].exists
              /\ disk'[f].size = CurSize
              /\ ~part'[f].exists
              /\ last' = last
        /\ (pc \in returns /\ df.stats.verify = "FAIL") =>
              /\ pc' = "file_done"
              /\ disk'[f] = disk[f]
              /\ disk'[f].exists
              /\ \/ /\ last'.status = "returned"
                    /\ last'.stats.verify = "FAIL"
                 \/ /\ last'.status = "raised"
                    /\ last'.err = "ConnectionError"
                    /\ df.ftp \notin net'.open
    ]_vars

\* C20 witness: download_file has returned FAIL; the reloaded file with
\* its damaged content is at the final path.
C20_Witness ==
  /\ pc = "file_done"
  /\ last.status = "returned"
  /\ last.stats.verify = "FAIL"
  /\ last.stats.reloads = 1
  /\ disk[ExpectedLocalFile(CurRemote)].exists
  /\ ~disk[ExpectedLocalFile(CurRemote)].ok
  /\ ~part[ExpectedLocalFile(CurRemote)].exists

\* ---- C21 ----
\* the delays waited so far grow linearly: the k-th is base x k
LinearDelays(s) == \A k \in 1..Len(s) : s[k] = SLEEP_BETWEEN_RETRIES * k

\* C21: every retry loop (listing, size query, transfer, reload, and the
\* listing retry of recurse) makes at most MAX_RETRIES attempts, and the
\* delay it waits after its k-th failed attempt is SLEEP_BETWEEN_RETRIES x k.
C21_LinearBackoff ==
  /\ le.attempt <= MAX_RETRIES /\ LinearDelays(le.slept)
  /\ rs.attempt <= MAX_RETRIES /\ LinearDelays(rs.slept)
  /\ dv.attempt <= MAX_RETRIES /\ LinearDelays(dv.slept)
  /\ \A i \in 1..Len(stack) :
       stack[i].retries < MAX_RETRIES /\ LinearDelays(stack[i].slept)

\* ---- C22 ----
\* position of an algorithm in the preference order
PrefIndex(a) == CHOOSE i \in 1..Len(PREFERRED_HASH_ALGOS) :
                  PREFERRED_HASH_ALGOS[i] = a

\* C22: when setup_hash_features has returned, no error left it; the
\* OPTS HASH commands it sent went to advertised algorithms in preference
\* order without skipping an advertised one, only the last of them can
\* have been accepted, and the selected algorithm is that accepted one;
\* when FEAT failed or no activation was accepted, HASH_SUPPORTED is
\* False and HASH_ALGO is None.
C22_FirstAccepted ==
  sh.pc = "end" =>
    LET n == Len(sh.opts)
        acc == {k \in 1..n : sh.opts[k].ok}
        tried == {sh.opts[k].pref : k \in 1..n}
    IN /\ ~sh.raised
       /\ \A k \in 1..n : sh.opts[k].pref \in server.algos
       /\ \A j, k \in 1..n :
            j < k => PrefIndex(sh.opts[j].pref) < PrefIndex(sh.opts[k].pref)
       /\ \A k \in 1..n : \A i \in 1..PrefIndex(sh.opts[k].pref) :
            PREFERRED_HASH_ALGOS[i] \in server.algos
              => PREFERRED_HASH_ALGOS[i] \in tried
       /\ sh.feat = "failed" => n = 0
       /\ IF acc = {}
          THEN /\ ~sh.HASH_SUPPORTED /\ sh.HASH_ALGO = NoAlgo
               /\ sh.feat = "ok" =>
                    \A i \in 1..Len(PREFERRED_HASH_ALGOS) :
                      PREFERRED_HASH_ALGOS[i] \in server.algos
                        => PREFERRED_HASH_ALGOS[i] \in tried
          ELSE /\ acc = {n}
               /\ sh.HASH_SUPPORTED /\ sh.HASH_ALGO = sh.opts[n].pref

\* an advertised CRC32 was not accepted, a later algorithm was
C22_Witness ==
  /\ sh.pc = "end"
  /\ Len(sh.opts) >= 2
  /\ sh.opts[1].pref = "CRC32" /\ ~sh.opts[1].ok
  /\ sh.opts[Len(sh.opts)].ok
  /\ sh.HASH_ALGO = sh.opts[Len(sh.opts)].pref
  /\ "SHA-256" \in server.accept \ {sh.HASH_ALGO}

\* ---- C23 ----
\* a step of a download that does not resume: an attempt of a fresh
\* first download or of a reload
NonResumedAttempt ==
  \/ pc = "dv_transfer" /\ dv.rest = -1
  \/ pc = "dv_reload"

\* C23: an attempt of a non-resumed download changes the final local path
\* only when the attempt completed, and then to a file of the full remote
\* size with no temporary sibling left (the rename); a failed attempt
\* leaves its bytes in the temporary sibling and the final path as it was;
\* the verification between the two phases changes the final path only
\* by removing the mismatching file; no other local path is touched.
C23_FinalPathNeverPartial ==
  [][/\ NonResumedAttempt =>
          LET f == CurLocal
              completed == pc' \in {"dv_verify", "df_post", "df_skip_end"}
          IN /\ \A p \in DOMAIN disk : p # f => disk'[p] = disk[p]
             /\ ~disk[f].exists
             /\ IF completed
                THEN /\ disk'[f].exists /\ disk'[f].size = CurSize
                     /\ ~part'[f].exists
                ELSE /\ disk'[f] = disk[f]
                     /\ part'[f].exists
     /\ pc = "dv_verify" =>
          \/ disk' = disk
          \/ disk' = [disk EXCEPT ![CurLocal] = NoFile]]_vars

\* a fresh download broke after some bytes: they are in the temporary
\* sibling, the final path does not exist, and the next attempt is due
C23_Witness ==
  /\ pc = "dv_transfer" /\ dv.rest = -1 /\ dv.attempt = 2
  /\ part[CurLocal].exists
  /\ part[CurLocal].size > 0 /\ part[CurLocal].size < CurSize
  /\ ~disk[CurLocal].exists

\* ---- C24 ----
\* C24: when _download_and_verify has returned from its first phase (no
\* reload), the bytes value of its outcome is the size of the final file
\* for a fresh download, and the size of the final file minus the size
\* the file had before for a resume.
C24_BytesOfSuccessfulAttempt ==
  (/\ pc \in {"df_post", "df_skip_end"}
   /\ df.stats.action \in {"downloaded", "resumed"}
   /\ df.stats.reloads = 0)
  => df.stats.bytes =
       disk[CurLocal].size
         - (IF df.stats.action = "resumed" THEN df.file0.size ELSE 0)

\* ---- C25 ----
\* C25: when download_file has returned an outcome, the global total has
\* grown by exactly the bytes value of that outcome since the call began.
C25_TotalCountsEveryOutcome ==
  (pc = "file_done" /\ last.status = "returned")
  => total_bytes_downloaded = last.bytes0 + last.stats.bytes

\* ---- C26 ----
\* the run has ended: completed (a second run may follow) or aborted
Ended == pc \in {"exit", "aborted"}

\* what the loops of the activation records of recurse still have to do
RECURSIVE FramesLeft(_)
FramesLeft(i) ==
  IF i = 0 THEN 0
  ELSE FramesLeft(i - 1) + 1 + (Len(stack[i].dirs) + 1 - stack[i].di)
                             + (Len(stack[i].files) + 1 - stack[i].fi)

\* a measure of the work a run has left, in this order of weight: the
\* runs, the directories and files not yet visited, the attempts the
\* listing of the current directory has left, the directory and file
\* loops of the activation records, and the position in a file visit with
\* the attempts its loops have left.  It does not look at the failures.
Rank ==
  LET M == MAX_RETRIES
      unvisited ==
        Cardinality(RemoteDirs(tree) \ Range(hist.entered))
        + Cardinality(RemoteFiles(tree) \ Range(hist.order))
        + (IF pc = "main" THEN 1 ELSE 0) - (IF pc = "recurse" THEN 1 ELSE 0)
      inner == 5 * (M + 1 - le.attempt)
      listing ==
        CASE pc = "recurse" -> 40 * (M + 2)
          [] pc = "recurse_keepalive" -> 40 * (M + 2) - 1
          [] pc \in {"list_entries", "le_pwd"} -> 40 * (M - Top.retries) + inner + 4
          [] pc = "le_cwd" -> 40 * (M - Top.retries) + inner + 3
          [] pc = "le_mlsd" -> 40 * (M - Top.retries) + inner + 2
          [] pc = "le_except" -> 40 * (M - Top.retries) + inner + 1
          [] pc = "recurse_list_except" -> 40 * (M - Top.retries)
          [] OTHER -> 0
      visit ==
        CASE pc = "remote_file_size" ->
               (IF rs.caller = "recurse" THEN 70 ELSE 50) + M - rs.attempt
          [] pc = "download_file" -> 60
          [] pc = "df_decide" -> 40
          [] pc = "dv_transfer" -> 30 + M - dv.attempt
          [] pc = "dv_verify" -> 20
          [] pc = "dv_reload" -> 10 + M - dv.attempt
          [] pc \in {"df_post", "df_skip_end", "main"} -> 5
          [] pc = "file_done" -> 3
          [] pc = "recurse_dirs" -> 2
          [] pc \in {"recurse_files", "done", "raised"} -> 1
          [] OTHER -> 0
  IN (2 - run) * 1000000000 + unvisited * 10000000 + listing * 10000
     + FramesLeft(Len(stack)) * 100 + visit

\* no element occurs twice in the sequence
NoRepeat(q) == \A i, j \in 1..Len(q) : q[i] = q[j] => i = j

\* C26: a mirror run ends for every remote tree and every pattern of
\* failures: a state in which the run has not ended has a next step, every
\* step lowers a natural-number measure of the remaining work that does
\* not depend on the failures, no retry loop goes beyond MAX_RETRIES
\* attempts, a file visit starts at most one reload, and no directory is
\* entered twice.
C26_RunEnds ==
  /\ [](~Ended => ENABLED Next)
  /\ [][/\ Rank' < Rank
        /\ Rank' >= 0
        /\ le'.attempt <= MAX_RETRIES
        /\ rs'.attempt <= MAX_RETRIES
        /\ dv'.attempt <= MAX_RETRIES
        /\ \A i \in 1..Len(stack') : stack'[i].retries < MAX_RETRIES
        /\ dv'.reloads <= 1
        /\ NoRepeat(hist'.entered)]_vars

====
